---- MODULE Spec2Model ----
(***************************************************************************)
(* Avature job scraper: endpoint detection (helpers.py) and paginated      *)
(* extraction with duplicate suppression (jobs_helper.py).                 *)
(*                                                                         *)
(* Spec        scrape_single_config(config) for every config that          *)
(*             detection can hand over, against a server that answers each *)
(*             request with any response of a bounded catalogue.           *)
(* SpecFlood   the same drivers against a source that answers every        *)
(*             request with one and the same page.                         *)
(* SpecDetect  detect_endpoint_for_url on one career page.                 *)
(*                                                                         *)
(* A raw item of a listing (a JSON object, an HTML job element) is         *)
(* abstracted to what the normalizer gets out of it: NoTitle (no record),  *)
(* NoId (a record without job_id) or an identifier 1..MaxId.               *)
(***************************************************************************)
EXTENDS Integers, Sequences, FiniteSets, TLC

\* ---------------------------------------------------------------- bounds
MaxId == 1
MaxItems == 6
MaxNoId == 4
MaxFloodIds == 4
MaxSamples == 3
MaxPageIds == 6
MaxRate == 2
MaxThreads == 2
MaxCalls == 4
MaxClock == 5
TicksPerToken == 2
MaxFields == 2

\* ------------------------------------------------------ program constants
MAX_PAGES_PER_SITE == 20
SAMPLE_LIMIT == 5
MAX_RETRIES == 2

NoTitle == -1
NoId == 0
Ids == 1..MaxId
Items == {NoTitle, NoId} \cup Ids

VARIABLES
    pc,               \* position of the run
    config,           \* the detection result handed to scrape_single_config
    driver,           \* which extraction function runs: none, json, html, partial
    api_url,          \* the URL form try_json_api found (api_url_template)
    try_i,            \* index into api_urls of try_json_api
    page,             \* page index of the pagination loop
    consecutive_empty,
    seen_job_ids,
    jobs,             \* the result list, a sequence of records [job_id]
    stop,             \* why the loop was left
    response,         \* the response of the request in flight
    fetches,          \* number of requests the driver has issued
    sleeps,           \* number of time.sleep calls of the driver
    idx,              \* position in sample_job_ids (detail-page driver)
    server,           \* the source: any response, or the same page always
    acquired,         \* acquire() was called for the request being made
    acquires,         \* number of RateLimiter.acquire() calls
    netlog,           \* every network attempt made: [req, acquired]
    html,             \* the fetched career page (detection)
    attempt,          \* attempt index in fetch_page
    path_i,           \* index into common_paths (detection)
    result,           \* the detection result
    rate,             \* RateLimiter.rate (requests_per_second)
    tokens,           \* RateLimiter.tokens, in units of 1/TicksPerToken
    last_update,      \* RateLimiter.last_update, in clock ticks
    lock,             \* RateLimiter.lock: its holder, or NoThread
    clock,            \* time.time(), in ticks of 1/(rate * TicksPerToken) s
    caller,           \* where each thread is in acquire()
    sleep_until,      \* when the time.sleep of the lock holder is over
    returned,         \* the clock readings at which acquire() calls returned
    url,              \* the URL of the last page request of a pagination driver
    duplicate_rate,   \* page_duplicates and the item count of the page the loop was left at
    raw_job,          \* the raw JSON object (job_obj) given to parse_job_from_json
    parsed_job        \* what parse_job_from_json returned for it (job_data or None)

vars == <<pc, config, driver, api_url, try_i, page, consecutive_empty,
          seen_job_ids, jobs, stop, response, fetches, sleeps, idx, server,
          acquired, acquires, netlog, html, attempt, path_i, result,
          rate, tokens, last_update, lock, clock, caller, sleep_until, returned,
          url, duplicate_rate, raw_job, parsed_job>>

scrapeVars == <<config, driver, api_url, try_i, page, consecutive_empty,
                seen_job_ids, jobs, stop, fetches, sleeps, idx, server,
                url, duplicate_rate>>

detectVars == <<html, attempt, path_i, result>>

limiterVars == <<rate, tokens, last_update, lock, clock, caller, sleep_until, returned>>

parseVars == <<raw_job, parsed_job>>

\* Everything but the RateLimiter.
programVars == <<pc, response, acquired, acquires, netlog, scrapeVars, detectVars, parseVars>>

\* ------------------------------------------------------------- responses
\* A response is what the code inspects of it: whether the request raised,
\* the status code, the kind of body, and for a JSON body its envelope
\* ("list": a top-level array, "scalar": neither array nor object, otherwise
\* the single key of an object) and for a listing its raw items; for a
\* detail page whether the final URL holds login or signin and whether a
\* non-empty title element is found. When the request raised, whether the
\* exception is requests.Timeout.
NoResponse == [exc |-> FALSE, timeout |-> FALSE, status |-> 0, fmt |-> "none", key |-> "",
               items |-> <<>>, login |-> FALSE, title |-> FALSE]

\* requests.get raised an exception other than a timeout (a connection error).
Raised == [NoResponse EXCEPT !.exc = TRUE]

\* requests.get raised requests.Timeout.
TimedOut == [Raised EXCEPT !.timeout = TRUE]

Statuses == {200, 500}

IsSorted(p) == \A i \in 1..(Len(p) - 1) : p[i] <= p[i + 1]

\* The listings a server serves: up to MaxItems raw items.
Pages == {p \in UNION {[1..n -> Items] : n \in 0..MaxItems} : IsSorted(p)}

SmallPages == {p \in Pages : Len(p) <= 1}

DictKeys == {"jobs", "data", "rows"}

JsonBodies ==
    {[fmt |-> "json", key |-> "list", items |-> p] : p \in Pages}
    \cup {[fmt |-> "json", key |-> k, items |-> p] : k \in DictKeys, p \in SmallPages}
    \cup {[fmt |-> "json", key |-> "scalar", items |-> <<>>]}

HtmlBodies == {[fmt |-> "html", key |-> "", items |-> p] : p \in Pages}

Garbage == [fmt |-> "garbage", key |-> "", items |-> <<>>]

WithStatus(s, b) == [NoResponse EXCEPT !.status = s, !.fmt = b.fmt, !.key = b.key,
                                       !.items = b.items]

\* A non-200 answer carries a short body.
Catalogue ==
    {Raised, TimedOut}
    \cup {WithStatus(200, b) : b \in JsonBodies \cup HtmlBodies \cup {Garbage}}
    \cup {WithStatus(500, b) : b \in {x \in JsonBodies \cup HtmlBodies : Len(x.items) <= 1} \cup {Garbage}}

RECURSIVE Count(_, _)
Count(s, x) == IF s = <<>> THEN 0
               ELSE (IF Head(s) = x THEN 1 ELSE 0) + Count(Tail(s), x)

JobIdsOf(s) == [i \in 1..Len(s) |-> s[i].job_id]

\* What the source may answer to a request that expects a body of format
\* fmt. A source of mode "any" answers with any response of the catalogue,
\* where a body of another format carries a short listing and at most
\* MaxNoId identifier-less items are served in one run; a source of mode
\* "idless" never runs out of items: it serves listings of at most one item,
\* none with an identifier; a source of mode "same" gives one answer.
Served(fmt) ==
    IF server.mode = "same" THEN {server.resp}
    ELSE IF server.mode = "idless"
    THEN {r \in Catalogue : Len(r.items) <= 1 /\ \A i \in 1..Len(r.items) : r.items[i] \notin Ids}
    ELSE {r \in Catalogue :
            /\ r.fmt = fmt \/ Len(r.items) <= 1
            /\ Count(JobIdsOf(jobs), NoId) + Count(r.items, NoId) <= MaxNoId}

\* ------------------------------------------------------------ normalizer
None == [job_id |-> NoTitle]

\* parse_job_from_json: None without a title, else a record whose job_id is
\* the identifier or absent (NoId).
parse_job_from_json(job_obj) == IF job_obj = NoTitle THEN None ELSE [job_id |-> job_obj]

\* parse_job_from_listing: None without an anchor text, else a record whose
\* job_id is what extract_job_id_from_url finds in the link.
parse_job_from_listing(job_elem) == IF job_elem = NoTitle THEN None ELSE [job_id |-> job_elem]

\* jobs_list of the JSON driver: the array itself, or the first non-empty
\* array under jobs, items, results, data, jobList, else [].
JobsList(r) ==
    IF r.key = "list" THEN r.items
    ELSE IF r.key \in {"jobs", "items", "results", "data", "jobList"} THEN r.items
    ELSE <<>>

\* find_job_elements on the parsed body: an HTML listing gives its job
\* elements, any other content gives none.
find_job_elements(r) == IF r.fmt = "html" THEN r.items ELSE <<>>

\* try_json_api's acceptance of a 200 answer.
JsonApiAccepts(r) ==
    /\ r.fmt = "json"
    /\ \/ r.key \in {"jobs", "items", "results"}
       \/ r.key = "list" /\ Len(r.items) > 0

\* ------------------------------------------------------- duplicate checks
\* if job_id: seen_job_ids.add(job_id)
AddSeen_NoAdd(seen, job_id) == seen

AddSeen(seen, job_id) == IF job_id # NoId THEN seen \cup {job_id} ELSE seen

\* if job_id and job_id in seen_job_ids
IsDuplicate(seen, job_id) == job_id # NoId /\ job_id \in seen

\* The item loop of scrape_via_json_api over jobs_list[i..].
RECURSIVE ScanJson(_, _, _)
ScanJson(items, i, acc) ==
    IF i > Len(items) THEN acc
    ELSE LET job_data == parse_job_from_json(items[i]) IN
         IF job_data = None THEN ScanJson(items, i + 1, acc)
         ELSE IF IsDuplicate(acc.seen, job_data.job_id)
              THEN ScanJson(items, i + 1,
                            [acc EXCEPT !.page_duplicates = @ + 1])
              ELSE ScanJson(items, i + 1,
                            [acc EXCEPT !.seen = AddSeen(@, job_data.job_id),
                                        !.page_jobs = Append(@, job_data),
                                        !.page_new_jobs = @ + 1])

\* The item loop of scrape_via_html_parsing over job_elements[i..].
RECURSIVE ScanHtml(_, _, _)
ScanHtml(items, i, acc) ==
    IF i > Len(items) THEN acc
    ELSE LET job_data == parse_job_from_listing(items[i]) IN
         IF job_data = None THEN ScanHtml(items, i + 1, acc)
         ELSE IF IsDuplicate(acc.seen, job_data.job_id)
              THEN ScanHtml(items, i + 1,
                            [acc EXCEPT !.page_duplicates = @ + 1])
              ELSE ScanHtml(items, i + 1,
                            [acc EXCEPT !.seen = AddSeen(@, job_data.job_id),
                                        !.page_jobs = Append(@, job_data)])

ScanStart(seen) == [seen |-> seen, page_jobs |-> <<>>, page_duplicates |-> 0, page_new_jobs |-> 0]

\* page_duplicates / n > 0.8: the quotient of two small integers is the
\* double nearest to the exact ratio, and 0.8 is the double nearest to 4/5,
\* so the comparison is the exact one.
DuplicateFlood_Never(page_duplicates, n) == FALSE

DuplicateFlood_AtLeast(page_duplicates, n) == n > 0 /\ page_duplicates * 10 >= 8 * n

DuplicateFlood(page_duplicates, n) == n > 0 /\ page_duplicates * 10 > 8 * n

\* consecutive_empty >= 2
EmptyLimit_One(c) == c >= 1

EmptyLimit(c) == c >= 2

\* while page < MAX_PAGES_PER_SITE
LoopGuard_OffByOne(p) == p <= MAX_PAGES_PER_SITE

LoopGuard(p) == p < MAX_PAGES_PER_SITE

\* ------------------------------------------------- scrape_single_config
ReportConfig ==
    [status |-> "success", type |-> "public_report_json", endpoint |-> "report",
     pagination_param |-> "offset", page_size_param |-> "recordsPerPage",
     default_page_size |-> 1000, sample_job_ids |-> <<>>]

SearchConfig ==
    [status |-> "success", type |-> "search_jobs_html", endpoint |-> "search",
     pagination_param |-> "jobOffset", page_size_param |-> "jobRecords",
     default_page_size |-> 50, sample_job_ids |-> <<>>]

PartialConfig(S) ==
    [status |-> "partial", type |-> "html_scrape", endpoint |-> "career",
     pagination_param |-> "", page_size_param |-> "", default_page_size |-> 0,
     sample_job_ids |-> S]

FailedConfig ==
    [status |-> "failed", type |-> "none", endpoint |-> "none",
     pagination_param |-> "", page_size_param |-> "", default_page_size |-> 0,
     sample_job_ids |-> <<>>]

IsInjective(s) == \A i, j \in 1..Len(s) : i # j => s[i] # s[j]

\* sample_job_ids of a detection result: list(set)[:5], distinct identifiers.
Samples == {s \in UNION {[1..n -> 1..MaxSamples] : n \in 0..MaxSamples} : IsInjective(s)}

Configs == {ReportConfig, SearchConfig, FailedConfig} \cup {PartialConfig(S) : S \in Samples}

\* api_urls of try_json_api, in order.
ApiUrls == <<"base/PublicReports?actionPerformed", "endpoint?output=json", "base/api/jobs">>

\* A URL is its part before the query string and the parameters of the
\* query string, in order; the value of a parameter is a number or not.
NotANumber == -1

Param(name, value) == [name |-> name, value |-> value]

NoUrl == [path |-> "none", query |-> <<>>]

\* api_urls of try_json_api as built from offset and limit: the three
\* f-strings of ApiUrls.
ApiUrlsWith(offset, limit) ==
    << [path |-> "base/PublicReports",
        query |-> <<Param("actionPerformed", NotANumber), Param("jobOffset", offset),
                    Param("jobRecords", limit)>>],
       [path |-> "endpoint",
        query |-> <<Param("output", NotANumber), Param("jobOffset", offset),
                    Param("jobRecords", limit)>>],
       [path |-> "base/api/jobs",
        query |-> <<Param("offset", offset), Param("limit", limit)>>] >>

\* The pattern f"{param}=\\d+" matches at a parameter with a numeric value
\* whose name ends in param; the comparison is case-sensitive, and of the
\* names in play (actionPerformed, output, jobOffset, jobRecords, offset,
\* limit, recordsPerPage) none ends in another.
Matches(param, q) == q.name = param /\ q.value # NotANumber

\* re.sub(f"{param}=\\d+", f"{param}={value}", u)
ReSub(param, value, u) ==
    [u EXCEPT !.query = [i \in 1..Len(u.query) |->
                            IF Matches(param, u.query[i])
                            THEN Param(u.query[i].name, value)
                            ELSE u.query[i]]]

\* api_url of scrape_via_json_api for a template without "{offset}", which
\* is what try_json_api returns.
JsonPageUrl(api_url_template, pagination_param, page_size_param, offset, page_size) ==
    ReSub(page_size_param, page_size, ReSub(pagination_param, offset, api_url_template))

\* url of scrape_via_html_parsing.
HtmlPageUrl(endpoint, pagination_param, page_size_param, offset, page_size) ==
    [path |-> endpoint, query |-> <<Param(pagination_param, offset),
                                    Param(page_size_param, page_size)>>]

\* No duplicate rate: none was computed for the page, or the iteration is
\* over and its local variables are gone.
NoRate == [page_duplicates |-> 0, n |-> 0]

\* What a discovery request of try_json_api may be answered with.
TryResponses == {r \in Catalogue : Len(r.items) <= 1}

DetailResponses ==
    {Raised, TimedOut}
    \cup {[NoResponse EXCEPT !.status = s, !.fmt = "html", !.login = l, !.title = t] :
            s \in Statuses, l \in BOOLEAN, t \in BOOLEAN}

Log(req) == netlog' = netlog \cup {[req |-> req, acquired |-> acquired]}

Return(reason) == /\ pc' = "done"
                  /\ stop' = reason

\* scrape_single_config: the dispatch on config["status"], and the start of
\* scrape_paginated_endpoint or scrape_partial_endpoint.
ScrapeSingleConfig ==
    /\ pc = "start"
    /\ IF config.status = "success"
       THEN /\ pc' = "try_json_api"
            /\ UNCHANGED <<driver, stop>>
       ELSE IF config.status = "partial" /\ config.sample_job_ids # <<>>
       THEN /\ pc' = "partial_fetch"
            /\ driver' = "partial"
            /\ UNCHANGED stop
       ELSE /\ Return(IF config.status = "partial" THEN "no_ids" ELSE "not_scraped")
            /\ UNCHANGED driver
    /\ UNCHANGED <<config, api_url, try_i, page, consecutive_empty, seen_job_ids, jobs,
                   response, fetches, sleeps, idx, server, acquired, acquires, netlog>>
    /\ UNCHANGED <<url, duplicate_rate>>
    /\ UNCHANGED detectVars
    /\ UNCHANGED limiterVars
    /\ UNCHANGED parseVars

\* The driver scrape_paginated_endpoint picks: the JSON driver when
\* try_json_api returned a URL, else the HTML driver.
EnterLoop(fetch_pc) ==
    IF LoopGuard(0) THEN pc' = fetch_pc /\ UNCHANGED stop ELSE Return("cap")

\* try_json_api: one request of its loop over api_urls.
TryJsonApi ==
    /\ pc = "try_json_api"
    /\ \E r \in TryResponses :
        /\ Log("json_discovery")
        /\ IF ~r.exc /\ r.status = 200 /\ JsonApiAccepts(r)
           THEN /\ api_url' = ApiUrls[try_i + 1]
                /\ driver' = "json"
                /\ EnterLoop("json_fetch")
                /\ UNCHANGED try_i
           ELSE IF try_i + 1 < Len(ApiUrls)
           THEN /\ try_i' = try_i + 1
                /\ UNCHANGED <<api_url, driver, pc, stop>>
           ELSE /\ driver' = "html"
                /\ EnterLoop("html_fetch")
                /\ UNCHANGED <<api_url, try_i>>
    /\ UNCHANGED <<config, page, consecutive_empty, seen_job_ids, jobs, response,
                   fetches, sleeps, idx, server, acquired, acquires>>
    /\ UNCHANGED <<url, duplicate_rate>>
    /\ UNCHANGED detectVars
    /\ UNCHANGED limiterVars
    /\ UNCHANGED parseVars

\* requests.get of one page of a pagination driver.
FetchPageOf(at, req, then, fmt, u) ==
    /\ pc = at
    /\ url' = u
    /\ UNCHANGED duplicate_rate
    /\ \E r \in Served(fmt) : response' = r
    /\ fetches' = fetches + 1
    /\ Log(req)
    /\ pc' = then
    /\ UNCHANGED <<config, driver, api_url, try_i, page, consecutive_empty, seen_job_ids,
                   jobs, stop, sleeps, idx, server, acquired, acquires>>
    /\ UNCHANGED detectVars
    /\ UNCHANGED limiterVars
    /\ UNCHANGED parseVars

\* offset = page * page_size and the request of scrape_via_json_api; the
\* template is the URL try_json_api was called with offset 0 and limit
\* default_page_size.
JsonFetch ==
    FetchPageOf("json_fetch", "json_page", "json_process", "json",
                JsonPageUrl(ApiUrlsWith(0, config.default_page_size)[try_i + 1],
                            config.pagination_param, config.page_size_param,
                            page * config.default_page_size, config.default_page_size))

\* offset = page * page_size and the request of scrape_via_html_parsing.
HtmlFetch ==
    FetchPageOf("html_fetch", "html_page", "html_process", "html",
                HtmlPageUrl(config.endpoint, config.pagination_param, config.page_size_param,
                            page * config.default_page_size, config.default_page_size))

\* The page is left with break: nothing of it is kept but the identifiers
\* already added to seen_job_ids.
Break(reason, seen) ==
    /\ Return(reason)
    /\ seen_job_ids' = seen
    /\ UNCHANGED <<page, consecutive_empty, jobs, sleeps>>

\* jobs.extend(page_jobs); page += 1; time.sleep(...) and the loop test.
NextPage(fetch_pc, seen, page_jobs, empty) ==
    /\ seen_job_ids' = seen
    /\ consecutive_empty' = empty
    /\ jobs' = jobs \o page_jobs
    /\ page' = page + 1
    /\ sleeps' = sleeps + 1
    /\ IF LoopGuard(page + 1) THEN pc' = fetch_pc /\ UNCHANGED stop ELSE Return("cap")

\* scrape_via_json_api: the rest of one loop iteration, after requests.get.
JsonProcess ==
    /\ pc = "json_process"
    /\ response' = NoResponse
    /\ IF response.exc THEN Break("error", seen_job_ids)
       ELSE IF response.status # 200 THEN Break("http", seen_job_ids)
       ELSE IF response.fmt # "json" THEN Break("error", seen_job_ids)
       ELSE LET jobs_list == JobsList(response)
                scan == ScanJson(jobs_list, 1, ScanStart(seen_job_ids))
            IN IF DuplicateFlood(scan.page_duplicates, Len(jobs_list))
               THEN Break("flood", scan.seen)
               ELSE IF scan.page_new_jobs = 0
               THEN IF EmptyLimit(consecutive_empty + 1)
                    THEN /\ Return("empty")
                         /\ consecutive_empty' = consecutive_empty + 1
                         /\ seen_job_ids' = scan.seen
                         /\ UNCHANGED <<page, jobs, sleeps>>
                    ELSE NextPage("json_fetch", scan.seen, scan.page_jobs,
                                  consecutive_empty + 1)
               ELSE NextPage("json_fetch", scan.seen, scan.page_jobs, 0)
    /\ duplicate_rate' =
          IF pc' # "done" \/ response.exc \/ response.status # 200 \/ response.fmt # "json"
          THEN NoRate
          ELSE [page_duplicates |->
                    ScanJson(JobsList(response), 1, ScanStart(seen_job_ids)).page_duplicates,
                n |-> Len(JobsList(response))]
    /\ UNCHANGED <<config, driver, api_url, try_i, fetches, idx, server,
                   acquired, acquires, netlog, url>>
    /\ UNCHANGED detectVars
    /\ UNCHANGED limiterVars
    /\ UNCHANGED parseVars

\* scrape_via_html_parsing: the rest of one loop iteration. The status code
\* of the response is not looked at.
HtmlProcess ==
    /\ pc = "html_process"
    /\ response' = NoResponse
    /\ IF response.exc THEN Break("error", seen_job_ids)
       ELSE LET job_elements == find_job_elements(response)
                scan == ScanHtml(job_elements, 1, ScanStart(seen_job_ids))
            IN IF job_elements = <<>>
               THEN IF EmptyLimit(consecutive_empty + 1)
                    THEN /\ Return("empty")
                         /\ consecutive_empty' = consecutive_empty + 1
                         /\ UNCHANGED <<seen_job_ids, page, jobs, sleeps>>
                    ELSE NextPage("html_fetch", seen_job_ids, <<>>, consecutive_empty + 1)
               ELSE IF DuplicateFlood(scan.page_duplicates, Len(job_elements))
               THEN Break("flood", scan.seen)
               ELSE IF scan.page_jobs = <<>>
               THEN IF EmptyLimit(consecutive_empty + 1)
                    THEN /\ Return("empty")
                         /\ consecutive_empty' = consecutive_empty + 1
                         /\ seen_job_ids' = scan.seen
                         /\ UNCHANGED <<page, jobs, sleeps>>
                    ELSE NextPage("html_fetch", scan.seen, scan.page_jobs,
                                  consecutive_empty + 1)
               ELSE NextPage("html_fetch", scan.seen, scan.page_jobs, 0)
    /\ duplicate_rate' =
          IF pc' # "done" \/ response.exc \/ find_job_elements(response) = <<>>
          THEN NoRate
          ELSE [page_duplicates |->
                    ScanHtml(find_job_elements(response), 1,
                             ScanStart(seen_job_ids)).page_duplicates,
                n |-> Len(find_job_elements(response))]
    /\ UNCHANGED <<config, driver, api_url, try_i, fetches, idx, server,
                   acquired, acquires, netlog, url>>
    /\ UNCHANGED detectVars
    /\ UNCHANGED limiterVars
    /\ UNCHANGED parseVars

\* ------------------------------------------------ scrape_partial_endpoint
\* requests.get of the detail page of sample_job_ids[idx].
PartialFetch ==
    /\ pc = "partial_fetch"
    /\ \E r \in DetailResponses : response' = r
    /\ fetches' = fetches + 1
    /\ Log("detail_page")
    /\ pc' = "partial_process"
    /\ UNCHANGED <<config, driver, api_url, try_i, page, consecutive_empty, seen_job_ids,
                   jobs, stop, sleeps, idx, server, acquired, acquires>>
    /\ UNCHANGED <<url, duplicate_rate>>
    /\ UNCHANGED detectVars
    /\ UNCHANGED limiterVars
    /\ UNCHANGED parseVars

\* if "login" in response.url.lower() or "signin" in response.url.lower()
RequiresAuth_Never(r) == FALSE

RequiresAuth(r) == r.login

\* if job_data["job_title"]: jobs.append(job_data)
KeepDetail(r) == r.title

\* The rest of one iteration of the loop over sample_job_ids.
PartialProcess ==
    /\ pc = "partial_process"
    /\ response' = NoResponse
    /\ LET job_id == config.sample_job_ids[idx]
           skipped == response.exc \/ RequiresAuth(response) \/ response.status # 200
       IN /\ jobs' = IF ~skipped /\ KeepDetail(response)
                     THEN Append(jobs, [job_id |-> job_id]) ELSE jobs
          /\ sleeps' = IF skipped THEN sleeps ELSE sleeps + 1
    /\ idx' = idx + 1
    /\ IF idx + 1 <= Len(config.sample_job_ids)
       THEN pc' = "partial_fetch" /\ UNCHANGED stop
       ELSE Return("exhausted")
    /\ UNCHANGED <<config, driver, api_url, try_i, page, consecutive_empty, seen_job_ids,
                   fetches, server, acquired, acquires, netlog>>
    /\ UNCHANGED <<url, duplicate_rate>>
    /\ UNCHANGED detectVars
    /\ UNCHANGED limiterVars
    /\ UNCHANGED parseVars

\* ------------------------------------------------------------- detection
\* A career page is what the probes look for in it: the pattern
\* /PublicReports/<id>/json, a form whose action matches SearchJobs, the
\* keyword SearchJobs, the job identifiers the three patterns find; and
\* whether the request was redirected (final_url differs from url).
NoHtml == [report |-> FALSE, form |-> FALSE, keyword |-> FALSE, job_ids |-> {},
           redirected |-> FALSE]

HtmlPages == [report : BOOLEAN, form : BOOLEAN, keyword : BOOLEAN,
              job_ids : SUBSET (1..MaxPageIds), redirected : BOOLEAN]

NoResult == [status |-> "failed", type |-> "none", endpoint |-> "none", error |-> "none",
             method |-> "none", sample_job_ids |-> <<>>]

\* common_paths of detect_search_jobs_endpoint, in order.
CommonPaths == <<"/careers/SearchJobs/", "/careers/SearchJobs", "/SearchJobs/">>

\* What the test request of the report probe may be answered with.
TestResponses ==
    {Raised}
    \cup {WithStatus(s, b) : s \in Statuses,
            b \in {x \in JsonBodies : x.items = <<>>} \cup {Garbage}}

\* test_response.status_code == 200, the body parses as JSON and
\* "rows" in data or "data" in data.
ReportTestPasses_StatusOnly(r) == ~r.exc /\ r.status = 200

ReportTestPasses(r) ==
    /\ ~r.exc
    /\ r.status = 200
    /\ r.fmt = "json"
    /\ r.key \in {"rows", "data"}

\* list(all_job_ids)[:5]: the first five of the set, in the order the set
\* happens to be listed.
SampleLists_All(ids) == {s \in [1..Cardinality(ids) -> ids] : IsInjective(s)}

SampleLists(ids) ==
    LET n == IF Cardinality(ids) < SAMPLE_LIMIT THEN Cardinality(ids) ELSE SAMPLE_LIMIT
    IN {s \in [1..n -> ids] : IsInjective(s)}

Detected(r) == /\ pc' = "detect_done"
               /\ result' = r

\* The status codes the career page may be answered with.
PageStatuses == Statuses \cup {404}

\* f"http_{status_code}"
HttpError_Fixed(status_code) == "http_500"

HttpError(status_code) ==
    IF status_code = 404 THEN "http_404"
    ELSE IF status_code = 500 THEN "http_500"
    ELSE "http_other"

\* for attempt in range(max_retries): there is an attempt after this one.
MoreAttempts_OneMore(a) == a + 1 <= MAX_RETRIES

MoreAttempts(a) == a + 1 < MAX_RETRIES

DetectStart_NoAcquire ==
    /\ pc = "detect_start"
    /\ attempt' = 0
    /\ pc' = "fetch_attempt"
    /\ UNCHANGED <<response, acquired, acquires, netlog, html, path_i, result>>
    /\ UNCHANGED scrapeVars
    /\ UNCHANGED limiterVars
    /\ UNCHANGED parseVars

\* detect_endpoint_for_url calls fetch_page: rate_limiter.acquire().
DetectStart ==
    /\ pc = "detect_start"
    /\ acquired' = TRUE
    /\ acquires' = acquires + 1
    /\ attempt' = 0
    /\ pc' = "fetch_attempt"
    /\ UNCHANGED <<response, netlog, html, path_i, result>>
    /\ UNCHANGED scrapeVars
    /\ UNCHANGED limiterVars
    /\ UNCHANGED parseVars

\* fetch_page: one attempt of the retry loop, and what
\* detect_endpoint_for_url does with the value fetch_page returns.
FetchAttempt ==
    /\ pc = "fetch_attempt"
    /\ Log("career_page")
    /\ \/ \* requests.Timeout
          /\ response' = TimedOut
          /\ attempt' = attempt + 1
          /\ IF MoreAttempts(attempt)
             THEN UNCHANGED <<pc, result, acquired>>
             ELSE /\ Detected([NoResult EXCEPT !.error = "fetch_failed"])
                  /\ acquired' = FALSE
          /\ UNCHANGED html
       \/ \* requests.RequestException: break
          /\ response' = Raised
          /\ Detected([NoResult EXCEPT !.error = "fetch_failed"])
          /\ acquired' = FALSE
          /\ UNCHANGED <<html, attempt>>
       \/ \* a response
          \E st \in PageStatuses, h \in HtmlPages :
            /\ response' = [NoResponse EXCEPT !.status = st, !.fmt = "html"]
            /\ acquired' = FALSE
            /\ html' = h
            /\ IF st # 200
               THEN Detected([NoResult EXCEPT !.error = HttpError(st)])
               ELSE pc' = "probe_report" /\ UNCHANGED result
            /\ UNCHANGED attempt
    /\ UNCHANGED <<acquires, path_i>>
    /\ UNCHANGED scrapeVars
    /\ UNCHANGED limiterVars
    /\ UNCHANGED parseVars

\* detect_public_reports_endpoint, and the return of
\* detect_endpoint_for_url when it gives a config.
ProbeReport ==
    /\ pc = "probe_report"
    /\ IF html.report
       THEN \E r \in TestResponses :
              /\ acquires' = acquires + 1
              /\ netlog' = netlog \cup {[req |-> "report_test", acquired |-> TRUE]}
              /\ response' = r
              /\ IF ReportTestPasses(r)
                 THEN Detected([NoResult EXCEPT !.status = "success",
                                                !.type = "public_report_json",
                                                !.endpoint = "tenant/PublicReports/id/json"])
                 ELSE pc' = "probe_search" /\ UNCHANGED result
       ELSE /\ pc' = "probe_search"
            /\ UNCHANGED <<acquires, netlog, response, result>>
    /\ UNCHANGED <<acquired, html, attempt, path_i>>
    /\ UNCHANGED scrapeVars
    /\ UNCHANGED limiterVars
    /\ UNCHANGED parseVars

\* detect_search_jobs_endpoint, method 1 (form detection), and the entry
\* into method 2.
ProbeSearch ==
    /\ pc = "probe_search"
    /\ IF html.form
       THEN Detected([NoResult EXCEPT !.status = "success",
                                      !.type = "search_jobs_html",
                                      !.endpoint = "tenant/form_action",
                                      !.method = "form_detection"])
       ELSE /\ pc' = IF html.keyword THEN "path_guess" ELSE "probe_ids"
            /\ UNCHANGED result
    /\ path_i' = 0
    /\ UNCHANGED <<response, acquired, acquires, netlog, html, attempt>>
    /\ UNCHANGED scrapeVars
    /\ UNCHANGED limiterVars
    /\ UNCHANGED parseVars

\* if test_resp.status_code == 200, for a check that did not raise.
PathExists_AnyAnswer(r) == ~r.exc

PathExists(r) == ~r.exc /\ r.status = 200

\* detect_search_jobs_endpoint, method 2: the existence check of one
\* candidate path.
PathGuess ==
    /\ pc = "path_guess"
    /\ acquires' = acquires + 1
    /\ netlog' = netlog \cup {[req |-> "path_check", acquired |-> TRUE]}
    /\ \E r \in {Raised} \cup {[NoResponse EXCEPT !.status = st] : st \in Statuses} :
         /\ response' = r
         /\ IF PathExists(r)
            THEN /\ Detected([NoResult EXCEPT !.status = "success",
                                              !.type = "search_jobs_html",
                                              !.endpoint = "tenant" \o CommonPaths[path_i + 1],
                                              !.method = "path_guessing"])
                 /\ UNCHANGED path_i
            ELSE /\ path_i' = path_i + 1
                 /\ pc' = IF path_i + 1 < Len(CommonPaths) THEN "path_guess" ELSE "probe_ids"
                 /\ UNCHANGED result
    /\ UNCHANGED <<acquired, html, attempt>>
    /\ UNCHANGED scrapeVars
    /\ UNCHANGED limiterVars
    /\ UNCHANGED parseVars

\* detect_job_ids_in_html, and the end of detect_endpoint_for_url.
ProbeIds ==
    /\ pc = "probe_ids"
    /\ IF html.job_ids # {}
       THEN \E s \in SampleLists(html.job_ids) :
              Detected([NoResult EXCEPT !.status = "partial",
                                        !.type = "html_scrape",
                                        !.endpoint = "url",
                                        !.sample_job_ids = s])
       ELSE Detected([NoResult EXCEPT !.error = "no_pattern_detected"])
    /\ UNCHANGED <<response, acquired, acquires, netlog, html, attempt, path_i>>
    /\ UNCHANGED scrapeVars
    /\ UNCHANGED limiterVars
    /\ UNCHANGED parseVars

\* ------------------------------------------------------------ RateLimiter
\* Time is counted in ticks of 1/(rate * TicksPerToken) seconds and tokens in
\* units of 1/TicksPerToken, so that elapsed * rate is the number of ticks
\* elapsed and (1 - tokens) / rate is TicksPerToken - tokens ticks.
\* time.time() is taken as non-decreasing.
NoThread == 0

Threads == 1..MaxThreads

\* The positions of a caller inside its critical section.
Critical == {"refill", "check", "sleeping"}

\* with self.lock: the lock can be taken.
LockFree_Always(l) == TRUE

LockFree(l) == l = NoThread

\* min(self.rate, self.tokens + elapsed * self.rate)
Refill(tok, elapsed) ==
    IF tok + elapsed < rate * TicksPerToken THEN tok + elapsed ELSE rate * TicksPerToken

\* The number of acquire() calls made so far.
Calls == Len(returned) + Cardinality({t \in Threads : caller[t] # "idle"})

\* The state of a limiter nobody calls.
LimiterIdle ==
    /\ tokens = rate * TicksPerToken
    /\ last_update = 0
    /\ lock = NoThread
    /\ clock = 0
    /\ caller = [t \in Threads |-> "idle"]
    /\ sleep_until = 0
    /\ returned = <<>>

\* Time passes: while a thread waits, sleeps or is outside acquire(). The
\* statements between taking the lock and sleeping or returning take no time.
Tick ==
    /\ clock < MaxClock
    /\ \A t \in Threads : caller[t] \notin {"refill", "check"}
    /\ clock' = clock + 1
    /\ UNCHANGED <<rate, tokens, last_update, lock, caller, sleep_until, returned>>
    /\ UNCHANGED programVars

\* A thread calls acquire() and comes to "with self.lock".
Call(t) ==
    /\ caller[t] = "idle"
    /\ Calls < MaxCalls
    /\ caller' = [caller EXCEPT ![t] = "waiting"]
    /\ UNCHANGED <<rate, tokens, last_update, lock, clock, sleep_until, returned>>
    /\ UNCHANGED programVars

\* The thread gets the lock.
Enter(t) ==
    /\ caller[t] = "waiting"
    /\ LockFree(lock)
    /\ lock' = t
    /\ caller' = [caller EXCEPT ![t] = "refill"]
    /\ UNCHANGED <<rate, tokens, last_update, clock, sleep_until, returned>>
    /\ UNCHANGED programVars

\* now = time.time(); elapsed = now - self.last_update; the refill;
\* self.last_update = now.
RefillTokens(t) ==
    /\ caller[t] = "refill"
    /\ tokens' = Refill(tokens, clock - last_update)
    /\ last_update' = clock
    /\ caller' = [caller EXCEPT ![t] = "check"]
    /\ UNCHANGED <<rate, lock, clock, sleep_until, returned>>
    /\ UNCHANGED programVars

\* The call returns: the with block is left and the lock released.
ReturnFromAcquire(t) ==
    /\ lock' = NoThread
    /\ caller' = [caller EXCEPT ![t] = "idle"]
    /\ returned' = Append(returned, clock)

\* if self.tokens >= 1: take one and return; else compute sleep_time and
\* start to sleep, the lock still held.
TakeOrSleep(t) ==
    /\ caller[t] = "check"
    /\ IF tokens >= TicksPerToken
       THEN /\ tokens' = tokens - TicksPerToken
            /\ ReturnFromAcquire(t)
            /\ UNCHANGED sleep_until
       ELSE /\ sleep_until' = clock + (TicksPerToken - tokens)
            /\ caller' = [caller EXCEPT ![t] = "sleeping"]
            /\ UNCHANGED <<tokens, lock, returned>>
    /\ UNCHANGED <<rate, last_update, clock>>
    /\ UNCHANGED programVars

\* time.sleep(sleep_time) is over (not before sleep_time has passed);
\* self.tokens = 0 and the call returns. last_update keeps the reading taken
\* before the sleep.
Wake(t) ==
    /\ caller[t] = "sleeping"
    /\ clock >= sleep_until
    /\ tokens' = 0
    /\ ReturnFromAcquire(t)
    /\ UNCHANGED <<rate, last_update, clock, sleep_until>>
    /\ UNCHANGED programVars

\* ------------------------------------------- parse_job_from_json, by field
\* A raw JSON object gives each field name a value: Absent (no such key),
\* PyNone (null), Zero (the number 0), Empty (the string ""), Seven (the
\* number 7) or a non-empty string. Objects and arrays as values are left
\* out.
Absent == "<absent>"

PyNone == "<null>"

Zero == "<0>"

Empty == ""

Seven == "<7>"

Strings == {Empty, "Job A", "http://h/j"}

Values == {PyNone, Zero, Seven} \cup Strings

IdAliases == <<"id", "jobId", "Id", "requisitionId", "positionId">>

TitleAliases == <<"title", "jobTitle", "positionTitle", "name">>

LocationAliases == <<"location", "primaryLocation", "city">>

DescriptionAliases == <<"description", "summary", "jobDescription">>

UrlAliases == <<"url", "jobUrl", "applyUrl">>

DateAliases == <<"postedDate", "datePosted", "createdDate">>

FieldNames ==
    UNION {{a[i] : i \in 1..Len(a)} :
            a \in {IdAliases, TitleAliases, LocationAliases, DescriptionAliases,
                   UrlAliases, DateAliases}}

NoObject == [k \in FieldNames |-> Absent]

\* The raw objects with at most n keys.
RECURSIVE Objects(_)
Objects(n) ==
    IF n = 0 THEN {NoObject}
    ELSE LET smaller == Objects(n - 1)
         IN smaller \cup {[o EXCEPT ![k] = v] : o \in smaller, k \in FieldNames, v \in Values}

\* job_obj.get(key)
Get(o, key) == IF o[key] = Absent THEN PyNone ELSE o[key]

\* The truth value Python gives a value in "or" and "if".
Truthy(v) == v \notin {PyNone, Zero, Empty}

\* str(v)
Str(v) ==
    IF v = Zero THEN "0"
    ELSE IF v = Seven THEN "7"
    ELSE IF v = PyNone THEN "None"
    ELSE v

\* job_obj.get(a1) or job_obj.get(a2) or ...: the first truthy operand,
\* else the last operand.
RECURSIVE OrChain(_, _, _)
OrChain(o, aliases, i) ==
    IF i >= Len(aliases) \/ Truthy(Get(o, aliases[i])) THEN Get(o, aliases[i])
    ELSE OrChain(o, aliases, i + 1)

\* re.sub(r"[^a-zA-Z0-9-]", "", title.replace(" ", "-"))[:50]
Slug(title) ==
    IF title = "Job A" THEN "Job-A"
    ELSE IF title = "http://h/j" THEN "httphj"
    ELSE title

\* base_url of the JSON driver, an absolute URL.
BaseUrl == "https://t/c"

\* url.startswith("http")
StartsWithHttp(u) == u = "http://h/j"

\* urljoin(base_url, url) for a relative url: the last segment of base_url
\* is replaced.
UrlJoin(base_url, u) == "https://t/" \o u

\* f"{base_url}/JobDetail/{title_slug}/{job_id}"
SynthesizedUrl(base_url, title_slug, job_id) ==
    base_url \o "/JobDetail/" \o title_slug \o "/" \o Str(job_id)

\* parse_job_from_json returned None, or has not run.
NotParsed == [returned |-> FALSE, job_id |-> PyNone, job_title |-> PyNone,
              job_url |-> PyNone, location |-> PyNone, date_posted |-> PyNone,
              job_description |-> PyNone]

\* parse_job_from_json(job_obj, tenant, base_url) field by field. A title or
\* URL that is a number raises AttributeError where a string method is called
\* on it (replace, startswith), which the except clause turns into None.
parse_job_from_json_fields(o, base_url) ==
    LET job_id == OrChain(o, IdAliases, 1)
        job_title == OrChain(o, TitleAliases, 1)
        location_data == OrChain(o, LocationAliases, 1)
        job_description == OrChain(o, DescriptionAliases, 1)
        date_posted == OrChain(o, DateAliases, 1)
        title_slug == IF Truthy(job_title) THEN Slug(job_title) ELSE "job"
        alias_url == OrChain(o, UrlAliases, 1)
        candidate == IF Truthy(alias_url) THEN alias_url
                     ELSE SynthesizedUrl(base_url, title_slug, job_id)
        raises == /\ Truthy(job_id)
                  /\ \/ Truthy(job_title) /\ job_title \notin Strings
                     \/ Truthy(alias_url) /\ alias_url \notin Strings
    IN IF raises \/ ~Truthy(job_title) THEN NotParsed
       ELSE [returned |-> TRUE,
             job_id |-> IF Truthy(job_id) THEN Str(job_id) ELSE PyNone,
             job_title |-> job_title,
             job_url |-> IF ~Truthy(job_id) THEN PyNone
                         ELSE IF StartsWithHttp(candidate) \/ ~Truthy(alias_url)
                         THEN candidate
                         ELSE UrlJoin(base_url, candidate),
             location |-> IF Truthy(location_data) THEN Str(location_data) ELSE PyNone,
             date_posted |-> IF Truthy(date_posted) THEN Str(date_posted) ELSE PyNone,
             job_description |-> job_description]

\* One call of parse_job_from_json.
ParseJson ==
    /\ pc = "parse"
    /\ parsed_job' = parse_job_from_json_fields(raw_job, BaseUrl)
    /\ pc' = "parsed"
    /\ UNCHANGED <<raw_job, response, acquired, acquires, netlog>>
    /\ UNCHANGED scrapeVars
    /\ UNCHANGED detectVars
    /\ UNCHANGED limiterVars

\* ---------------------------------------------------------- specifications
ScrapeInit ==
    /\ pc = "start"
    /\ driver = "none"
    /\ api_url = "none"
    /\ try_i = 0
    /\ page = 0
    /\ consecutive_empty = 0
    /\ seen_job_ids = {}
    /\ jobs = <<>>
    /\ stop = "none"
    /\ response = NoResponse
    /\ fetches = 0
    /\ sleeps = 0
    /\ idx = 1
    /\ acquired = FALSE
    /\ acquires = 0
    /\ netlog = {}
    /\ html = NoHtml
    /\ attempt = 0
    /\ path_i = 0
    /\ result = NoResult
    /\ rate = 1
    /\ LimiterIdle
    /\ url = NoUrl
    /\ duplicate_rate = NoRate
    /\ raw_job = NoObject
    /\ parsed_job = NotParsed

Init ==
    /\ ScrapeInit
    /\ config \in Configs
    /\ server \in {[mode |-> m, resp |-> NoResponse] : m \in {"any", "idless"}}

Next ==
    \/ ScrapeSingleConfig
    \/ TryJsonApi
    \/ JsonFetch
    \/ JsonProcess
    \/ HtmlFetch
    \/ HtmlProcess
    \/ PartialFetch
    \/ PartialProcess

Spec == Init /\ [][Next]_vars

\* The identical page a source of mode "same" serves: n >= 1 items with
\* distinct identifiers, as a JSON array, under the key jobs, or as HTML.
FloodPages ==
    {p \in UNION {[1..n -> 1..MaxFloodIds] : n \in 1..MaxFloodIds} : IsInjective(p)}

FloodBodies ==
    {[fmt |-> "json", key |-> "list", items |-> p] : p \in FloodPages}
    \cup {[fmt |-> "json", key |-> "jobs", items |-> p] : p \in FloodPages}
    \cup {[fmt |-> "html", key |-> "", items |-> p] : p \in FloodPages}

InitFlood ==
    /\ ScrapeInit
    /\ config \in {ReportConfig, SearchConfig}
    /\ server \in {[mode |-> "same", resp |-> WithStatus(200, b)] : b \in FloodBodies}

NextFlood ==
    \/ ScrapeSingleConfig
    \/ TryJsonApi
    \/ JsonFetch
    \/ JsonProcess
    \/ HtmlFetch
    \/ HtmlProcess

SpecFlood == InitFlood /\ [][NextFlood]_vars

InitDetect ==
    /\ pc = "detect_start"
    /\ config = FailedConfig
    /\ driver = "none"
    /\ api_url = "none"
    /\ try_i = 0
    /\ page = 0
    /\ consecutive_empty = 0
    /\ seen_job_ids = {}
    /\ jobs = <<>>
    /\ stop = "none"
    /\ response = NoResponse
    /\ fetches = 0
    /\ sleeps = 0
    /\ idx = 1
    /\ server = [mode |-> "any", resp |-> NoResponse]
    /\ acquired = FALSE
    /\ acquires = 0
    /\ netlog = {}
    /\ html = NoHtml
    /\ attempt = 0
    /\ path_i = 0
    /\ result = NoResult
    /\ rate = 1
    /\ LimiterIdle
    /\ url = NoUrl
    /\ duplicate_rate = NoRate
    /\ raw_job = NoObject
    /\ parsed_job = NotParsed

NextDetect ==
    \/ DetectStart
    \/ FetchAttempt
    \/ ProbeReport
    \/ ProbeSearch
    \/ PathGuess
    \/ ProbeIds

SpecDetect == InitDetect /\ [][NextDetect]_vars

\* A RateLimiter(requests_per_second) shared by the threads; nothing else
\* of the program runs.
InitLimiter ==
    /\ rate \in 1..MaxRate
    /\ LimiterIdle
    /\ pc = "limiter"
    /\ config = FailedConfig
    /\ driver = "none"
    /\ api_url = "none"
    /\ try_i = 0
    /\ page = 0
    /\ consecutive_empty = 0
    /\ seen_job_ids = {}
    /\ jobs = <<>>
    /\ stop = "none"
    /\ response = NoResponse
    /\ fetches = 0
    /\ sleeps = 0
    /\ idx = 1
    /\ server = [mode |-> "any", resp |-> NoResponse]
    /\ acquired = FALSE
    /\ acquires = 0
    /\ netlog = {}
    /\ html = NoHtml
    /\ attempt = 0
    /\ path_i = 0
    /\ result = NoResult
    /\ url = NoUrl
    /\ duplicate_rate = NoRate
    /\ raw_job = NoObject
    /\ parsed_job = NotParsed

NextLimiter ==
    \/ Tick
    \/ \E t \in Threads : Call(t)
    \/ \E t \in Threads : Enter(t)
    \/ \E t \in Threads : RefillTokens(t)
    \/ \E t \in Threads : TakeOrSleep(t)
    \/ \E t \in Threads : Wake(t)

SpecLimiter == InitLimiter /\ [][NextLimiter]_vars

\* parse_job_from_json on every raw object of at most MaxFields keys.
InitParse ==
    /\ raw_job \in Objects(MaxFields)
    /\ parsed_job = NotParsed
    /\ pc = "parse"
    /\ config = FailedConfig
    /\ driver = "none"
    /\ api_url = "none"
    /\ try_i = 0
    /\ page = 0
    /\ consecutive_empty = 0
    /\ seen_job_ids = {}
    /\ jobs = <<>>
    /\ stop = "none"
    /\ response = NoResponse
    /\ fetches = 0
    /\ sleeps = 0
    /\ idx = 1
    /\ server = [mode |-> "any", resp |-> NoResponse]
    /\ acquired = FALSE
    /\ acquires = 0
    /\ netlog = {}
    /\ html = NoHtml
    /\ attempt = 0
    /\ path_i = 0
    /\ result = NoResult
    /\ rate = 1
    /\ LimiterIdle
    /\ url = NoUrl
    /\ duplicate_rate = NoRate

NextParse == ParseJson

SpecParse == InitParse /\ [][NextParse]_vars

\* ------------------------------------------------------------ properties
InLoop == pc \in {"json_process", "html_process"}

\* The raw items the driver gets out of the response in flight.
PageItems == IF pc = "json_process" THEN JobsList(response) ELSE find_job_elements(response)

RecordsOf(p) == [i \in 1..Len(p) |-> [job_id |-> p[i]]]

Range(s) == {s[i] : i \in 1..Len(s)}

\* C1: every network attempt of a run (discovery request, page fetch of the
\* JSON and HTML drivers, detail-page fetch) is made after a call of
\* RateLimiter.acquire() for that request.
C1_AcquireBeforeEveryFetch == \A e \in netlog : e.acquired

\* C2: the result list of an extraction run (JSON, HTML or detail-page
\* driver) never holds two records with the same non-empty job_id.
C2_NoDuplicateJobIds ==
    \A i, j \in 1..Len(jobs) :
        i # j /\ jobs[i].job_id # NoId => jobs[i].job_id # jobs[j].job_id

\* C2 witness: a run that emitted identifier 1 and ended on a page of
\* duplicates, which it suppressed.
C2_Witness ==
    /\ pc = "done"
    /\ stop = "flood"
    /\ driver \in {"json", "html"}
    /\ \E i \in 1..Len(jobs) : jobs[i].job_id = 1

\* C3: a pagination driver issues at most MAX_PAGES_PER_SITE page fetches
\* whatever the server answers: every fetch either ends the run or advances
\* the page index, and the run is over when the index reaches the cap.
C3_PageCap ==
    driver \in {"json", "html"} =>
        /\ fetches <= MAX_PAGES_PER_SITE
        /\ page <= MAX_PAGES_PER_SITE
        /\ pc \in {"json_fetch", "html_fetch"} => fetches = page /\ page < MAX_PAGES_PER_SITE
        /\ InLoop => fetches = page + 1
        /\ page = MAX_PAGES_PER_SITE => pc = "done"

\* C3 witness: a source that serves a new record on every page is left at
\* the cap, after MAX_PAGES_PER_SITE fetches.
C3_Witness ==
    /\ pc = "done"
    /\ stop = "cap"
    /\ fetches = MAX_PAGES_PER_SITE
    /\ Len(jobs) = MAX_PAGES_PER_SITE

\* The career page was fetched with status 200 and detection has returned.
Probed ==
    /\ pc = "detect_done"
    /\ result.error \notin {"fetch_failed"} \cup {HttpError(st) : st \in PageStatuses}

\* C4 as stated: a page with both the report pattern and a SearchJobs form
\* is detected as public_report_json whatever the test request returns.
C4_ReportAlwaysWins ==
    Probed /\ html.report /\ html.form => result.type = "public_report_json"

\* C4 amended: on a page with both the report pattern and a SearchJobs form
\* the report probe runs first and makes its test request; the result is
\* public_report_json when the test answers 200 with a JSON object holding
\* rows or data, and search_jobs_html (form detection) otherwise.
C4_ReportFirst ==
    Probed /\ html.report /\ html.form =>
        /\ [req |-> "report_test", acquired |-> TRUE] \in netlog
        /\ result.status = "success"
        /\ IF ~response.exc /\ response.status = 200 /\ response.fmt = "json"
              /\ response.key \in {"rows", "data"}
           THEN result.type = "public_report_json"
           ELSE result.type = "search_jobs_html" /\ result.method = "form_detection"

\* C4 witness: both patterns present, the test passed, the report strategy
\* was returned.
C4_Witness ==
    /\ Probed
    /\ html.report
    /\ html.form
    /\ response.key = "rows"
    /\ result.type = "public_report_json"

\* C5: a page answered with a status other than 200 ends the loop of the
\* JSON and of the HTML driver: nothing of it is emitted, no counter moves.
C5_NonOkStops ==
    [][InLoop /\ ~response.exc /\ response.status # 200 =>
        /\ pc' = "done"
        /\ jobs' = jobs
        /\ seen_job_ids' = seen_job_ids
        /\ consecutive_empty' = consecutive_empty
        /\ page' = page]_vars

\* C6: the driver follows the strategy type: a public_report_json result
\* is extracted by the JSON driver, a search_jobs_html result by the HTML
\* driver.
C6_DriverByType ==
    driver \in {"json", "html"} =>
        /\ config.type = "public_report_json" => driver = "json"
        /\ config.type = "search_jobs_html" => driver = "html"

\* C7: a 200 answer whose body does not parse, on a page other than the
\* first, counts as one empty page and the driver goes on to the next page
\* unless that was the second empty page in a row or the last page.
C7_ParseFailureIsEmptyPage ==
    [][(/\ InLoop
        /\ page >= 1
        /\ ~response.exc
        /\ response.status = 200
        /\ response.fmt = "garbage") =>
        /\ jobs' = jobs
        /\ consecutive_empty' = consecutive_empty + 1
        /\ (consecutive_empty + 1 < 2 /\ page + 1 < MAX_PAGES_PER_SITE) =>
              /\ page' = page + 1
              /\ pc' \in {"json_fetch", "html_fetch"}]_vars

\* The items of the page in flight are all new: none without a title, none
\* seen before, no identifier twice.
AllNew(items) ==
    /\ \A i \in 1..Len(items) : items[i] # NoTitle /\ items[i] \notin seen_job_ids
    /\ \A i, j \in 1..Len(items) : i # j /\ items[i] # NoId => items[i] # items[j]

\* C8: every page that reaches the emptiness step (not ended by an error, a
\* non-200 status or the duplicate-flood stop) increments consecutive_empty
\* when it adds no record and resets it to 0 when it adds one; the driver
\* stops for emptiness exactly when the counter reaches 2; an empty page adds
\* nothing and a page of n new items adds n records. So 5 new items on page
\* 0 and empty pages 1 and 2 end the run after page 2 with those 5 records.
C8_EmptyCounter ==
    [][(InLoop /\ stop' \notin {"error", "http", "flood"}) =>
        /\ Len(jobs') >= Len(jobs)
        /\ SubSeq(jobs', 1, Len(jobs)) = jobs
        /\ Len(jobs') = Len(jobs) => consecutive_empty' = consecutive_empty + 1
        /\ Len(jobs') > Len(jobs) => consecutive_empty' = 0
        /\ stop' = "empty" <=> consecutive_empty' = 2
        /\ stop' # "empty" => consecutive_empty' < 2
        /\ PageItems = <<>> => jobs' = jobs
        /\ (PageItems # <<>> /\ AllNew(PageItems)) => jobs' = jobs \o RecordsOf(PageItems)]_vars

\* C8 witness: 5 records from page 0, then two pages without a new record,
\* the run stopped for emptiness at page index 2.
C8_Witness ==
    /\ pc = "done"
    /\ stop = "empty"
    /\ page = 2
    /\ fetches = 3
    /\ consecutive_empty = 2
    /\ Len(jobs) = 5

\* The driver that ran got the identical page in the format it reads.
FloodScenario ==
    /\ server.mode = "same"
    /\ \/ driver = "json" /\ server.resp.fmt = "json"
       \/ driver = "html" /\ server.resp.fmt = "html"

\* C9: against a source that answers every offset with the same page of
\* n >= 1 items with distinct identifiers, the driver fetches exactly two
\* pages, stops at the second for duplicate flood and returns the n records
\* of the first page.
C9_FloodStopsAtSecondPage ==
    (pc = "done" /\ FloodScenario) =>
        /\ fetches = 2
        /\ page = 1
        /\ stop = "flood"
        /\ jobs = RecordsOf(server.resp.items)

\* C9 witness: a finished run of the JSON driver on an identical page of
\* three items.
C9_Witness ==
    /\ pc = "done"
    /\ FloodScenario
    /\ driver = "json"
    /\ Len(server.resp.items) = 3
    /\ Len(jobs) = 3

\* C10: the detail-page driver fetches at most one page per sample
\* identifier, returns at most as many records as there are samples, each
\* with a job_id among the samples, and keeps no record for a page that
\* redirected to login/signin or has no title.
C10_PartialBounded ==
    /\ [](driver = "partial" =>
            /\ fetches <= Len(config.sample_job_ids)
            /\ fetches = IF pc = "partial_process" THEN idx ELSE idx - 1
            /\ Len(jobs) <= fetches
            /\ Len(jobs) <= Len(config.sample_job_ids)
            /\ \A i \in 1..Len(jobs) : jobs[i].job_id \in Range(config.sample_job_ids))
    /\ [][pc = "partial_process" =>
            /\ (response.login \/ ~response.title) => jobs' = jobs
            /\ jobs' # jobs => jobs' = Append(jobs, [job_id |-> config.sample_job_ids[idx]])]_vars

\* C10 witness: two samples, both pages fetched, one record kept and one
\* page skipped.
C10_Witness ==
    /\ pc = "done"
    /\ driver = "partial"
    /\ Len(config.sample_job_ids) = 2
    /\ fetches = 2
    /\ sleeps = 1
    /\ Len(jobs) = 1

\* The acquire() calls that returned at a clock reading in [a, b].
ReturnsIn(a, b) == Cardinality({i \in 1..Len(returned) : a <= returned[i] /\ returned[i] <= b})

\* C11: with any number of threads calling acquire() on one RateLimiter,
\* only the thread holding the lock is inside the critical section, tokens
\* and last_update change only in a step of that thread, and tokens stays
\* within 0 and the capacity.
C11_LockedBucket ==
    /\ [](/\ tokens >= 0
          /\ tokens <= rate * TicksPerToken
          /\ \A t \in Threads : caller[t] \in Critical => lock = t)
    /\ [][(tokens' # tokens \/ last_update' # last_update) =>
            /\ lock \in Threads
            /\ caller[lock] \in Critical
            /\ caller'[lock] # caller[lock]
            /\ \A t \in Threads \ {lock} : caller'[t] = caller[t]]_vars

\* C11 witness: one thread sleeps for its token with the lock held while
\* another waits for the lock, after a call has returned.
C11_Witness ==
    \E t, u \in Threads :
        /\ caller[t] = "sleeping"
        /\ lock = t
        /\ caller[u] = "waiting"
        /\ tokens < TicksPerToken
        /\ returned # <<>>

\* C18: in every time window the number of acquire() calls that returned is
\* at most rate * T + rate (T the length of the window in seconds).
C18_TokenBucketBound ==
    \A a \in 0..clock : \A b \in a..clock :
        ReturnsIn(a, b) * TicksPerToken <= (b - a) + rate * TicksPerToken

\* C12: a call of fetch_page calls acquire() once, before its first network
\* attempt: every attempt is made with the token acquired, and no attempt,
\* first or retry, calls acquire() again.
C12_AcquireOncePerFetch ==
    /\ [](/\ pc = "fetch_attempt" => acquired /\ acquires = 1
          /\ \A e \in netlog : e.req = "career_page" => e.acquired)
    /\ [][pc = "fetch_attempt" => acquires' = acquires]_vars

\* C12 witness: the first attempt timed out, the second got the page, and
\* acquire() was called once.
C12_Witness ==
    /\ pc = "probe_report"
    /\ attempt = 1
    /\ acquires = 1
    /\ [req |-> "career_page", acquired |-> TRUE] \in netlog

\* C13: fetch_page makes at most MAX_RETRIES attempts; another attempt
\* follows only a timeout; any other exception ends the call with failure at
\* once; the first attempt that completes gives the returned status and
\* body; MAX_RETRIES timeouts give failure.
C13_RetryOnlyOnTimeout ==
    /\ [](/\ attempt <= MAX_RETRIES
          /\ pc = "fetch_attempt" => attempt < MAX_RETRIES)
    /\ [][pc = "fetch_attempt" =>
            /\ pc' = "fetch_attempt" => response'.timeout /\ attempt' = attempt + 1
            /\ (response'.exc /\ ~response'.timeout) =>
                  /\ pc' = "detect_done"
                  /\ result'.error = "fetch_failed"
                  /\ attempt' = attempt
            /\ ~response'.exc =>
                  /\ attempt' = attempt
                  /\ IF response'.status = 200
                     THEN pc' = "probe_report"
                     ELSE pc' = "detect_done" /\ result'.error = HttpError(response'.status)
            /\ (response'.timeout /\ attempt + 1 = MAX_RETRIES) =>
                  /\ pc' = "detect_done"
                  /\ result'.error = "fetch_failed"]_vars

\* C13 witness: MAX_RETRIES attempts timed out and the fetch failed.
C13_Witness ==
    /\ pc = "detect_done"
    /\ attempt = MAX_RETRIES
    /\ response.timeout
    /\ result.error = "fetch_failed"

\* C14: a result of detect_endpoint_for_url with status success has an
\* endpoint and a type; one with status partial has between 1 and 5 sample
\* job identifiers, all found in the page.
C14_ResultShape ==
    pc = "detect_done" =>
        /\ result.status \in {"success", "partial", "failed"}
        /\ result.status = "success" =>
              /\ result.endpoint # "none"
              /\ result.type \in {"public_report_json", "search_jobs_html"}
        /\ result.status = "partial" =>
              /\ result.sample_job_ids # <<>>
              /\ Len(result.sample_job_ids) <= 5
              /\ Range(result.sample_job_ids) \subseteq html.job_ids

\* C14 witness: a page with six job identifiers and no endpoint gave a
\* partial result with five samples.
C14_Witness ==
    /\ pc = "detect_done"
    /\ result.status = "partial"
    /\ Cardinality(html.job_ids) = 6
    /\ Len(result.sample_job_ids) = 5

\* C15: detection fails with fetch_failed when the fetch of the career page
\* fails and with http_<status> when it is answered with another status
\* than 200, in both cases after the one acquire() of fetch_page and with no
\* request but those of fetch_page; it fails with no_pattern_detected when
\* the page was fetched and no probe found anything; a failed result has no
\* type and no endpoint.
C15_FailedResults ==
    pc = "detect_done" =>
        /\ result.status = "failed" <=> result.error # "none"
        /\ result.status = "failed" =>
              /\ result.type = "none"
              /\ result.endpoint = "none"
              /\ result.sample_job_ids = <<>>
        /\ (netlog = {[req |-> "career_page", acquired |-> TRUE]} /\ response.exc) =>
              result.error = "fetch_failed"
        /\ (netlog = {[req |-> "career_page", acquired |-> TRUE]} /\ response.status = 404) =>
              result.error = "http_404"
        /\ (netlog = {[req |-> "career_page", acquired |-> TRUE]} /\ response.status = 500) =>
              result.error = "http_500"
        /\ result.error \in {"fetch_failed", "http_404", "http_500"} =>
              /\ acquires = 1
              /\ netlog = {[req |-> "career_page", acquired |-> TRUE]}
              /\ path_i = 0
              /\ response.exc \/ response.status # 200
        /\ result.error \notin {"none", "fetch_failed", "http_404", "http_500"} =>
              /\ result.error = "no_pattern_detected"
              /\ ~html.form
              /\ html.job_ids = {}
              /\ html.report => [req |-> "report_test", acquired |-> TRUE] \in netlog
              /\ html.keyword => path_i = Len(CommonPaths)

\* C15 witness: the career page was answered with status 404 on the second
\* attempt and detection failed with http_404.
C15_Witness ==
    /\ pc = "detect_done"
    /\ attempt = 1
    /\ response.status = 404
    /\ result.error = "http_404"
    /\ acquires = 1

\* The query string of u has the parameter name with this value.
HasParam(u, name, value) == \E i \in 1..Len(u.query) : u.query[i] = Param(name, value)

\* C16: the URL of the request for page index p has the pagination
\* parameter of the detection result set to p * page_size and its page-size
\* parameter set to page_size, in the HTML driver and in the JSON driver
\* for each URL form of try_json_api.
C16_PageUrlParams ==
    InLoop =>
        /\ HasParam(url, config.pagination_param, page * config.default_page_size)
        /\ HasParam(url, config.page_size_param, config.default_page_size)

\* C17: when a pagination driver returns, the identifiers in seen_job_ids
\* are the non-empty job_ids of the returned records: every record taken as
\* new is in the result.
C17_SeenAreEmitted ==
    (pc = "done" /\ driver \in {"json", "html"}) =>
        seen_job_ids = {jobs[i].job_id : i \in 1..Len(jobs)} \ {NoId}

\* The driver got a body it can read the items of.
Parsed ==
    /\ ~response.exc
    /\ pc = "json_process" => response.status = 200 /\ response.fmt = "json"

\* The items of the page that are duplicates: records with an identifier
\* seen on an earlier page or earlier on this page.
DuplicatesOn(items) ==
    Cardinality({i \in 1..Len(items) :
                    /\ items[i] \notin {NoTitle, NoId}
                    /\ \/ items[i] \in seen_job_ids
                       \/ \E j \in 1..(i - 1) : items[j] = items[i]})

\* C19: a page ends the run for duplicate flood exactly when its duplicates
\* are more than 0.8 of its items (more than 4 in 5); a page with exactly
\* 4 duplicates in 5 items does not.
C19_FloodThreshold ==
    /\ [][(InLoop /\ Parsed) =>
            (stop' = "flood" <=> DuplicatesOn(PageItems) * 5 > 4 * Len(PageItems))]_vars
    /\ []((pc = "done" /\ driver \in {"json", "html"}) =>
            (stop = "flood" <=>
                duplicate_rate.page_duplicates * 5 > 4 * duplicate_rate.n))

\* C19 witness: the run was left at a page of 5 items with 4 duplicates, and
\* not for duplicate flood.
C19_Witness ==
    /\ pc = "done"
    /\ driver \in {"json", "html"}
    /\ duplicate_rate = [page_duplicates |-> 4, n |-> 5]
    /\ stop = "empty"

\* C20: a page or detail-page request that timed out on its first attempt
\* is made again: the driver stays on the same page index or sample and
\* neither ends the run nor gives the page up.
C20_TimeoutRetried ==
    [][(pc \in {"json_process", "html_process", "partial_process"} /\ response.timeout) =>
        /\ pc' \in {"json_fetch", "html_fetch", "partial_fetch"}
        /\ page' = page
        /\ idx' = idx
        /\ jobs' = jobs]_vars

\* C21: the detail-page driver sleeps between every two consecutive
\* detail-page requests, whatever became of the earlier one.
C21_DelayBetweenDetailRequests ==
    [][(pc = "partial_process" /\ pc' = "partial_fetch") => sleeps' = sleeps + 1]_vars

\* The value of the first alias that is present and not null, else none.
RECURSIVE FirstPresent(_, _, _)
FirstPresent(o, aliases, i) ==
    IF i > Len(aliases) THEN PyNone
    ELSE IF o[aliases[i]] \notin {Absent, PyNone} THEN o[aliases[i]]
    ELSE FirstPresent(o, aliases, i + 1)

\* The value of the first alias that carries a non-empty value, else none.
RECURSIVE FirstNonEmpty(_, _, _)
FirstNonEmpty(o, aliases, i) ==
    IF i > Len(aliases) THEN PyNone
    ELSE IF Truthy(Get(o, aliases[i])) THEN o[aliases[i]]
    ELSE FirstNonEmpty(o, aliases, i + 1)

\* A value as the record carries it after str().
StrOrNone(v) == IF v = PyNone THEN PyNone ELSE Str(v)

\* C22: for a raw object with a title, job_url is the URL of the first of
\* url, jobUrl, applyUrl that carries one (made absolute against the base
\* URL), whether or not the object has an identifier; without such a field
\* an object with an identifier gets the URL synthesized from base URL,
\* slugified title and identifier.
C22_UrlFromAlias ==
    (pc = "parsed" /\ parsed_job.returned) =>
        LET u == FirstNonEmpty(raw_job, UrlAliases, 1)
            job_id == FirstNonEmpty(raw_job, IdAliases, 1)
        IN IF u # PyNone
           THEN parsed_job.job_url = IF StartsWithHttp(u) THEN u ELSE UrlJoin(BaseUrl, u)
           ELSE job_id # PyNone =>
                    parsed_job.job_url =
                        SynthesizedUrl(BaseUrl, Slug(parsed_job.job_title), job_id)

\* C23: in a returned record, identifier, title, location, description and
\* posting date are each the value of the first alias, in the alias order,
\* that is present and not null in the raw object, the number 0 and the
\* empty string included.
C23_FirstPresentAlias ==
    (pc = "parsed" /\ parsed_job.returned) =>
        /\ parsed_job.job_id = StrOrNone(FirstPresent(raw_job, IdAliases, 1))
        /\ parsed_job.job_title = FirstPresent(raw_job, TitleAliases, 1)
        /\ parsed_job.location = StrOrNone(FirstPresent(raw_job, LocationAliases, 1))
        /\ parsed_job.job_description = FirstPresent(raw_job, DescriptionAliases, 1)
        /\ parsed_job.date_posted = StrOrNone(FirstPresent(raw_job, DateAliases, 1))

\* Where the endpoint of a result comes from: the requested URL for the
\* job-identifier fallback, the tenant argument for the other probes.
EndpointBase(endpoint) == IF endpoint = "url" THEN "url" ELSE "tenant"

\* C24: when the career-page request was redirected, the endpoint of a
\* success or partial result is built on the final URL of the fetch.
C24_EndpointFromFinalUrl ==
    (pc = "detect_done" /\ result.status \in {"success", "partial"} /\ html.redirected) =>
        EndpointBase(result.endpoint) = "final_url"

\* The acquire() calls of the report probe and of the existence checks.
ReportTests == IF \E e \in netlog : e.req = "report_test" THEN 1 ELSE 0

PathChecks == IF result.method = "path_guessing" THEN path_i + 1 ELSE path_i

\* C25: with a SearchJobs form the search probe returns without a request or
\* acquire(); without a form but with the keyword it checks the candidate
\* paths in order, one acquire() before each check, returns the first that
\* answers 200 and checks none after it, and skips a check that raises or
\* answers another status; otherwise it returns nothing.
C25_SearchProbe ==
    /\ [](/\ pc # "detect_start" => acquires = 1 + ReportTests + PathChecks
          /\ \A e \in netlog : e.req = "path_check" => e.acquired
          /\ result.method = "form_detection" =>
                /\ html.form
                /\ path_i = 0
                /\ \A e \in netlog : e.req # "path_check"
          /\ result.method = "path_guessing" =>
                /\ ~html.form
                /\ html.keyword
                /\ ~response.exc
                /\ response.status = 200
                /\ result.endpoint = IF path_i = 0 THEN "tenant/careers/SearchJobs/"
                                     ELSE IF path_i = 1 THEN "tenant/careers/SearchJobs"
                                     ELSE "tenant/SearchJobs/")
    /\ [][pc = "probe_search" =>
            /\ acquires' = acquires
            /\ netlog' = netlog
            /\ html.form =>
                  /\ pc' = "detect_done"
                  /\ result'.type = "search_jobs_html"
                  /\ result'.method = "form_detection"
            /\ (~html.form /\ html.keyword) => pc' = "path_guess" /\ result' = result
            /\ (~html.form /\ ~html.keyword) => pc' = "probe_ids" /\ result' = result]_vars
    /\ [][pc = "path_guess" =>
            /\ acquires' = acquires + 1
            /\ (response'.exc \/ response'.status # 200) =>
                  /\ path_i' = path_i + 1
                  /\ result' = result
                  /\ pc' = IF path_i + 1 < 3 THEN "path_guess" ELSE "probe_ids"
            /\ (~response'.exc /\ response'.status = 200) =>
                  /\ pc' = "detect_done"
                  /\ path_i' = path_i
                  /\ result'.type = "search_jobs_html"
                  /\ result'.method = "path_guessing"]_vars

\* C25 witness: no form, the keyword present, two candidates failed and the
\* third answered 200: three checks, each with its acquire().
C25_Witness ==
    /\ pc = "detect_done"
    /\ result.method = "path_guessing"
    /\ result.endpoint = "tenant/SearchJobs/"
    /\ path_i = 2
    /\ ~html.report
    /\ acquires = 4

====
